---- MODULE Spec2Model ----
(***************************************************************************)
(* Model of the git-clone build step (src/step.go, src/util.go).           *)
(*                                                                         *)
(* The program is one sequential process: main reads its inputs from the   *)
(* environment, prepares the private key and the repository URL, resolves  *)
(* the checkout parameter and calls doGitClone, which runs git and envman  *)
(* as external processes.  Every external call and every filesystem call   *)
(* is one step of the model; its outcome (exit status, error) is chosen    *)
(* nondeterministically where the environment decides it.                  *)
(*                                                                         *)
(* Strings are modelled as TLA+ strings, errors as the sequence of the     *)
(* message formats and arguments that fmt.Errorf / log.Fatalf nest.        *)
(***************************************************************************)
EXTENDS Integers, Sequences, FiniteSets, TLC

(***************************************************************************)
(* Values the inputs are drawn from.                                       *)
(***************************************************************************)
RepoURLs == {"", "HTTPS://example.com/r.git", "%zz"}
CloneDirs == {"", "/out", "out", "/nop/out"}
Commits == {"", "c0ffee"}
Tags == {"", "v1"}
Branches == {"", "main"}
PullRequestIDs == {"", "7"}
PrivateKeys == {"", "KEY"}
Homes == {"", "/home"}
WorkDirs == {"/work", "/out"}

(***************************************************************************)
(* Paths (package path / path/filepath).                                   *)
(***************************************************************************)
IsAbs(pth) == Len(pth) > 0 /\ SubSeq(pth, 1, 1) = "/"

\* path.Join of non-empty, already clean elements; empty elements are ignored
RECURSIVE Join(_)
Join(elems) ==
    IF elems = <<>> THEN ""
    ELSE IF Head(elems) = "" THEN Join(Tail(elems))
    ELSE LET rest == Join(Tail(elems))
         IN  IF rest = "" THEN Head(elems)
             ELSE IF Head(elems) = "/" THEN "/" \o rest
             ELSE Head(elems) \o "/" \o rest

\* filepath.Abs: an absolute path is kept, a relative one is joined to the
\* working directory
Abs(pth, wd) == IF IsAbs(pth) THEN pth ELSE Join(<<wd, pth>>)

\* the directory part of a path (used by the filesystem to find the parent)
RECURSIVE LastSlash(_, _)
LastSlash(pth, i) ==
    IF i = 0 THEN 0
    ELSE IF SubSeq(pth, i, i) = "/" THEN i
    ELSE LastSlash(pth, i - 1)

Dir(pth) ==
    LET i == LastSlash(pth, Len(pth))
    IN  IF i = 0 THEN "." ELSE IF i = 1 THEN "/" ELSE SubSeq(pth, 1, i - 1)

(***************************************************************************)
(* Errors: fmt.Errorf(format, args...) nests the rendered arguments.       *)
(***************************************************************************)
Errorf(format, args) == <<format>> \o args

ExitError == <<"exit status 1">>

(***************************************************************************)
(* net/url: Parse and URL.String, for the URL shapes of RepoURLs.  Parse   *)
(* splits the scheme off at the first ":" and lower-cases it, and rejects  *)
(* a "%" that is not followed by two hex digits; String puts the parts     *)
(* together again.                                                         *)
(***************************************************************************)
HexDigits == {"0", "1", "2", "3", "4", "5", "6", "7", "8", "9",
              "a", "b", "c", "d", "e", "f", "A", "B", "C", "D", "E", "F"}

LowerChar(ch) ==
    CASE ch = "H" -> "h" [] ch = "T" -> "t" [] ch = "P" -> "p"
      [] ch = "S" -> "s" [] OTHER -> ch

RECURSIVE ToLower(_)
ToLower(str) ==
    IF Len(str) = 0 THEN ""
    ELSE LowerChar(SubSeq(str, 1, 1)) \o ToLower(SubSeq(str, 2, Len(str)))

RECURSIVE IndexOf(_, _, _)
IndexOf(str, ch, i) ==
    IF i > Len(str) THEN 0
    ELSE IF SubSeq(str, i, i) = ch THEN i
    ELSE IndexOf(str, ch, i + 1)

HasBadEscape(str) ==
    \E i \in 1..Len(str) :
        /\ SubSeq(str, i, i) = "%"
        /\ \/ i + 2 > Len(str)
           \/ SubSeq(str, i + 1, i + 1) \notin HexDigits
           \/ SubSeq(str, i + 2, i + 2) \notin HexDigits

urlParse(rawurl) ==
    LET colon == IndexOf(rawurl, ":", 1)
        scheme == IF colon > 1 THEN ToLower(SubSeq(rawurl, 1, colon - 1)) ELSE ""
        rest == IF colon > 1 THEN SubSeq(rawurl, colon + 1, Len(rawurl)) ELSE rawurl
    IN  IF HasBadEscape(rest)
        THEN [err |-> <<"invalid URL escape">>, scheme |-> "", rest |-> ""]
        ELSE [err |-> <<>>, scheme |-> scheme, rest |-> rest]

urlString(u) == IF u.scheme = "" THEN u.rest ELSE u.scheme \o ":" \o u.rest

(***************************************************************************)
(* State.                                                                  *)
(***************************************************************************)
VARIABLES
    environ,            \* the process environment (os.Getenv / os.Setenv)
    cwd,                \* the process working directory
    runs,               \* for each earlier run here: did its git init succeed
    fs,                 \* the filesystem: path -> "dir" or a file's content
    fsWrites,           \* the filesystem changes made during the run, in order
    pc,                 \* position of the process in main / doGitClone
    repoURL, cloneIntoDir, commit, tag, branch, pullRequestID,
    authSSHPrivateKey,  \* main's locals read from the inputs
    absCloneIntoDir, privateKeyFilePth, preparedRepoURL, gitCheckoutParam,
    sshNoPromptFile,    \* doGitClone's local
    commitStats,        \* doGitClone's map of metadata key -> value
    calls,              \* the git processes run so far, in order
    envmanCalls,        \* metadata key -> the values envman add was run with
    envmanFailures,     \* number of envman runs that exited non-zero
    cloneErr,           \* doGitClone's return value once it has returned
    exitCode,           \* -1 while running, then the process exit status
    fatalMsg            \* the message of log.Fatalf, if it was called

inputs == <<repoURL, cloneIntoDir, commit, tag, branch, pullRequestID,
            authSSHPrivateKey>>
prepared == <<absCloneIntoDir, privateKeyFilePth, preparedRepoURL,
              gitCheckoutParam>>
world == <<environ, cwd, runs, fs, fsWrites>>
external == <<calls, envmanCalls, envmanFailures>>
cloneLocals == <<sshNoPromptFile, commitStats>>
outcome == <<cloneErr, exitCode, fatalMsg>>

vars == <<world, pc, inputs, prepared, cloneLocals, external, outcome>>

\* doGitClone has not returned
Pending == <<"pending">>

(***************************************************************************)
(* The metadata keys and the log format each is queried with, in the order *)
(* of the queries.                                                         *)
(***************************************************************************)
StatKeys ==
    <<"GIT_CLONE_COMMIT_HASH", "GIT_CLONE_COMMIT_MESSAGE_SUBJECT",
      "GIT_CLONE_COMMIT_MESSAGE_BODY", "GIT_CLONE_COMMIT_AUTHOR_NAME",
      "GIT_CLONE_COMMIT_AUTHOR_EMAIL", "GIT_CLONE_COMMIT_COMMITER_NAME",
      "GIT_CLONE_COMMIT_COMMITER_EMAIL">>

StatFormats == <<"%H", "%s", "%b", "%an", "%ae", "%cn", "%ce">>

StatKeySet == {StatKeys[i] : i \in 1..Len(StatKeys)}

(***************************************************************************)
(* Initial states: the step is started with any combination of inputs, in  *)
(* either working directory, with or without HOME, on a filesystem where   *)
(* the destination may or may not exist and may or may not hold a .git.    *)
(***************************************************************************)
BaseFs(wd) ==
    [p \in {"/", "/work", "/home", "/home/.ssh", wd} |-> "dir"]

\* the filesystems the run may start on, given where the clone is to go
InitialFileSystems(wd, dest) ==
    LET base == BaseFs(wd)
        withDest == [p \in {dest} |-> "dir"] @@ base
        withGit == [p \in {dest, Join(<<dest, ".git">>)} |-> "dir"] @@ base
    IN  IF dest = "" \/ Dir(dest) \notin DOMAIN base
        THEN {base}
        ELSE {base, withDest, withGit}

\* the environment a run with these inputs was started in
EnvironOf(u, d, c, t, b, p, k, h) ==
    [key \in {"repository_url", "clone_into_dir", "commit", "tag", "branch",
              "pull_request_id", "auth_ssh_private_key", "HOME",
              "GIT_ASKPASS", "GIT_SSH"} |->
        CASE key = "repository_url" -> u
          [] key = "clone_into_dir" -> d
          [] key = "commit" -> c
          [] key = "tag" -> t
          [] key = "branch" -> b
          [] key = "pull_request_id" -> p
          [] key = "auth_ssh_private_key" -> k
          [] key = "HOME" -> h
          [] OTHER -> ""]

NoLocals ==
    /\ repoURL = "" /\ cloneIntoDir = "" /\ commit = "" /\ tag = ""
    /\ branch = "" /\ pullRequestID = "" /\ authSSHPrivateKey = ""
    /\ absCloneIntoDir = "" /\ privateKeyFilePth = ""
    /\ preparedRepoURL = "" /\ gitCheckoutParam = ""

NothingDone ==
    /\ runs = <<>>
    /\ fsWrites = <<>>
    /\ sshNoPromptFile = ""
    /\ commitStats = <<>>
    /\ calls = <<>>
    /\ envmanCalls = [k \in StatKeySet |-> <<>>]
    /\ envmanFailures = 0
    /\ cloneErr = Pending
    /\ exitCode = -1
    /\ fatalMsg = <<>>

Init ==
    /\ \E u \in RepoURLs, d \in CloneDirs, c \in Commits, t \in Tags,
          b \in Branches, p \in PullRequestIDs, k \in PrivateKeys, h \in Homes :
        environ = EnvironOf(u, d, c, t, b, p, k, h)
    /\ cwd \in WorkDirs
    /\ fs \in InitialFileSystems(cwd, IF environ["clone_into_dir"] = "" THEN ""
                                      ELSE Abs(environ["clone_into_dir"], cwd))
    /\ pc = "main"
    /\ NoLocals
    /\ NothingDone

(***************************************************************************)
(* main                                                                    *)
(***************************************************************************)
\* mutant: the message is printed but the process is not ended
Fatalf_Returns(format, args) ==
    /\ pc' = pc
    /\ exitCode' = 1
    /\ fatalMsg' = Errorf(format, args)
    /\ UNCHANGED cloneErr

\* log.Fatalf: print the message and exit with status 1
Fatalf(format, args) ==
    /\ pc' = "exit"
    /\ exitCode' = 1
    /\ fatalMsg' = Errorf(format, args)
    /\ UNCHANGED cloneErr

\* mutant: the emptiness test is left out
validateRequiredInput_Unchecked(key) == [value |-> environ[key], err |-> <<>>]

validateRequiredInput(key) ==
    LET value == environ[key]
    IN  IF value = ""
        THEN [value |-> "", err |-> Errorf("[!] Missing required input: %s", <<key>>)]
        ELSE [value |-> value, err |-> <<>>]

\* the assignment of main's local that holds the input named key
SetInput(key, value) ==
    /\ repoURL' = IF key = "repository_url" THEN value ELSE repoURL
    /\ cloneIntoDir' = IF key = "clone_into_dir" THEN value ELSE cloneIntoDir
    /\ commit' = IF key = "commit" THEN value ELSE commit
    /\ tag' = IF key = "tag" THEN value ELSE tag
    /\ branch' = IF key = "branch" THEN value ELSE branch
    /\ pullRequestID' = IF key = "pull_request_id" THEN value ELSE pullRequestID
    /\ authSSHPrivateKey' =
           IF key = "auth_ssh_private_key" THEN value ELSE authSSHPrivateKey

\* value, err := validateRequiredInput(key); if err != nil { log.Fatalf(...) }
ReadInput(key, next) ==
    /\ LET r == validateRequiredInput(key)
       IN  IF r.err # <<>>
           THEN /\ Fatalf("Input validation failed, err: %s", r.err)
                /\ UNCHANGED inputs
           ELSE /\ pc' = next
                /\ SetInput(key, r.value)
                /\ UNCHANGED outcome
    /\ UNCHANGED <<world, prepared, cloneLocals, external>>

Main_repository_url ==
    /\ pc = "main"
    /\ ReadInput("repository_url", "main_clone_into_dir")

Main_clone_into_dir ==
    /\ pc = "main_clone_into_dir"
    /\ ReadInput("clone_into_dir", "main_commit")

Main_commit ==
    /\ pc = "main_commit"
    /\ ReadInput("commit", "main_tag")

Main_tag ==
    /\ pc = "main_tag"
    /\ ReadInput("tag", "main_branch")

Main_branch ==
    /\ pc = "main_branch"
    /\ ReadInput("branch", "main_pull_request_id")

Main_pull_request_id ==
    /\ pc = "main_pull_request_id"
    /\ ReadInput("pull_request_id", "main_auth_ssh_private_key")

Main_auth_ssh_private_key ==
    /\ pc = "main_auth_ssh_private_key"
    /\ ReadInput("auth_ssh_private_key", "main_abs")

\* absCloneIntoDir, err := filepath.Abs(cloneIntoDir); a relative path needs
\* os.Getwd, which may fail
Main_Abs ==
    /\ pc = "main_abs"
    /\ \E getwdOk \in BOOLEAN :
        IF ~IsAbs(cloneIntoDir) /\ ~getwdOk
        THEN /\ Fatalf("Failed to expand path (%s), err: %s",
                       <<cloneIntoDir, "getwd failed">>)
             /\ UNCHANGED prepared
        ELSE /\ absCloneIntoDir' = Abs(cloneIntoDir, cwd)
             /\ pc' = "main_write_key"
             /\ UNCHANGED <<privateKeyFilePth, preparedRepoURL, gitCheckoutParam,
                            outcome>>
    /\ UNCHANGED <<world, inputs, cloneLocals, external>>

\* the path writePrivateKeyToFile writes to
PrivateKeyPth == Join(<<environ["HOME"], ".ssh", "bitrise">>)

\* WriteStringToFile -> WriteBytesToFileWithPermission(pth, cont, 0):
\* os.Create, then file.Write.  io is what the operating system answers:
\* "ok", "create" (os.Create fails) or "write" (file.Write fails, leaving the
\* created, empty file).  os.Create also fails when the directory is missing.
WriteStringToFile(pth, fileCont, io) ==
    IF pth = "" THEN [err |-> <<"No path provided">>, fs |-> fs, wrote |-> <<>>]
    ELSE IF io = "create" \/ Dir(pth) \notin DOMAIN fs
    THEN [err |-> <<"open failed">>, fs |-> fs, wrote |-> <<>>]
    ELSE IF io = "write"
    THEN [err |-> <<"write failed">>, fs |-> (pth :> "") @@ fs,
          wrote |-> <<[op |-> "create", pth |-> pth]>>]
    ELSE [err |-> <<>>, fs |-> (pth :> fileCont) @@ fs,
          wrote |-> <<[op |-> "write", pth |-> pth]>>]

writePrivateKeyToFile(key, io) ==
    IF environ["HOME"] = ""
    THEN [pth |-> "", err |-> <<"Faild to get HOME">>, fs |-> fs, wrote |-> <<>>]
    ELSE LET w == WriteStringToFile(PrivateKeyPth, key, io)
         IN  [pth |-> IF w.err # <<>> THEN "" ELSE PrivateKeyPth,
              err |-> w.err, fs |-> w.fs, wrote |-> w.wrote]

\* privateKeyFilePth, err := writePrivateKeyToFile(authSSHPrivateKey)
Main_writePrivateKeyToFile ==
    /\ pc = "main_write_key"
    /\ \E io \in {"ok", "create", "write"} :
        LET w == writePrivateKeyToFile(authSSHPrivateKey, io)
        IN  /\ fs' = w.fs
            /\ fsWrites' = fsWrites \o w.wrote
            /\ IF w.err # <<>>
               THEN /\ Fatalf("Failed to write private key to file, err: %s", w.err)
                    /\ UNCHANGED prepared
               ELSE /\ privateKeyFilePth' = w.pth
                    /\ pc' = "main_parse_url"
                    /\ UNCHANGED <<absCloneIntoDir, preparedRepoURL,
                                   gitCheckoutParam, outcome>>
    /\ UNCHANGED <<environ, cwd, runs, inputs, cloneLocals, external>>

\* preparedRepoURL, err := url.Parse(repoURL); the model keeps the
\* re-serialized form preparedRepoURL.String() that doGitClone is given
Main_urlParse ==
    /\ pc = "main_parse_url"
    /\ LET u == urlParse(repoURL)
       IN  IF u.err # <<>>
           THEN /\ Fatalf("Failed to parse repo url (%s), err: %s",
                          <<repoURL>> \o u.err)
                /\ UNCHANGED prepared
           ELSE /\ preparedRepoURL' = urlString(u)
                /\ pc' = "main_resolve"
                /\ UNCHANGED <<absCloneIntoDir, privateKeyFilePth,
                               gitCheckoutParam, outcome>>
    /\ UNCHANGED <<world, inputs, cloneLocals, external>>

\* mutant: the tag is tested before the commit
ResolveCheckoutParam_TagFirst(pr, c, t, b) ==
    IF Len(pr) > 0 THEN "pull/" \o pr
    ELSE IF Len(t) > 0 THEN t
    ELSE IF Len(c) > 0 THEN c
    ELSE IF Len(b) > 0 THEN b
    ELSE ""

\* the cascade that picks gitCheckoutParam
ResolveCheckoutParam(pr, c, t, b) ==
    IF Len(pr) > 0 THEN "pull/" \o pr
    ELSE IF Len(c) > 0 THEN c
    ELSE IF Len(t) > 0 THEN t
    ELSE IF Len(b) > 0 THEN b
    ELSE ""

\* main computes gitCheckoutParam and calls doGitClone
Main_Resolve ==
    /\ pc = "main_resolve"
    /\ gitCheckoutParam' = ResolveCheckoutParam(pullRequestID, commit, tag, branch)
    /\ pc' = "clone_guard"
    /\ UNCHANGED <<world, inputs, absCloneIntoDir, privateKeyFilePth,
                   preparedRepoURL, cloneLocals, external, outcome>>

(***************************************************************************)
(* doGitClone                                                              *)
(***************************************************************************)
\* exec.Command("git", args...).Run(): the process runs in the working
\* directory of this process, with this process's environment
GitCall(args, env, ok) ==
    [args |-> args, dir |-> cwd, GIT_ASKPASS |-> env["GIT_ASKPASS"],
     GIT_SSH |-> env["GIT_SSH"], ok |-> ok]

\* return err from doGitClone
CloneReturn(err) ==
    /\ cloneErr' = err
    /\ pc' = "main_clone_return"
    /\ UNCHANGED <<exitCode, fatalMsg>>

\* os.Stat answers with the entry, with "not exist", or (denied) with
\* another error
genericIsPathExists(pth, denied) ==
    IF pth = "" THEN [exist |-> FALSE, err |-> <<"No path provided">>]
    ELSE IF denied THEN [exist |-> FALSE, err |-> <<"stat failed">>]
    ELSE [exist |-> pth \in DOMAIN fs, err |-> <<>>]

\* mutant: the error is returned but the answer is dropped
IsPathExists_DropsAnswer(pth, denied) ==
    [exist |-> FALSE, err |-> genericIsPathExists(pth, denied).err]

IsPathExists(pth, denied) == genericIsPathExists(pth, denied)

gitCheckPath == Join(<<absCloneIntoDir, ".git">>)

\* the .git guard at the head of doGitClone
Clone_IsPathExists ==
    /\ pc = "clone_guard"
    /\ \E denied \in BOOLEAN :
        LET r == IsPathExists(gitCheckPath, denied)
        IN  IF r.err # <<>> THEN CloneReturn(r.err)
            ELSE IF r.exist
            THEN CloneReturn(Errorf(
                     ".git folder already exists in the destination dir at: %s",
                     <<gitCheckPath>>))
            ELSE pc' = "clone_mkdir" /\ UNCHANGED outcome
    /\ UNCHANGED <<world, inputs, prepared, cloneLocals, external>>

\* mutant: an existing directory is accepted, as os.MkdirAll does
osMkdir_AcceptsExisting(pth, denied) ==
    IF denied \/ Dir(pth) \notin DOMAIN fs
    THEN [err |-> <<"mkdir failed">>, fs |-> fs, wrote |-> <<>>]
    ELSE IF pth \in DOMAIN fs
    THEN [err |-> <<>>, fs |-> fs, wrote |-> <<>>]
    ELSE [err |-> <<>>, fs |-> (pth :> "dir") @@ fs,
          wrote |-> <<[op |-> "mkdir", pth |-> pth]>>]

\* os.Mkdir: fails when the entry exists, when the parent is missing, or
\* (denied) for another reason
osMkdir(pth, denied) ==
    IF denied \/ pth \in DOMAIN fs \/ Dir(pth) \notin DOMAIN fs
    THEN [err |-> <<"mkdir failed">>, fs |-> fs, wrote |-> <<>>]
    ELSE [err |-> <<>>, fs |-> (pth :> "dir") @@ fs,
          wrote |-> <<[op |-> "mkdir", pth |-> pth]>>]

Clone_Mkdir ==
    /\ pc = "clone_mkdir"
    /\ \E denied \in BOOLEAN :
        LET r == osMkdir(absCloneIntoDir, denied)
        IN  /\ fs' = r.fs
            /\ fsWrites' = fsWrites \o r.wrote
            /\ IF r.err # <<>>
               THEN CloneReturn(Errorf(
                        "Failed to create the clone_destination_dir at: %s",
                        <<absCloneIntoDir>>))
               ELSE pc' = "clone_init" /\ UNCHANGED outcome
    /\ UNCHANGED <<environ, cwd, runs, inputs, prepared, cloneLocals, external>>

\* mutant: the exit status of git init is not returned
doGitInit_IgnoresExit(ok) ==
    LET dotGit == Join(<<cwd, ".git">>)
        created == ok /\ dotGit \notin DOMAIN fs
    IN  [err |-> <<>>,
         call |-> GitCall(<<"init">>, environ, ok),
         fs |-> IF created THEN (dotGit :> "dir") @@ fs ELSE fs,
         wrote |-> IF created THEN <<[op |-> "git-init", pth |-> dotGit]>>
                   ELSE <<>>]

\* git init creates the repository metadata in the directory it runs in
doGitInit(ok) ==
    LET dotGit == Join(<<cwd, ".git">>)
        created == ok /\ dotGit \notin DOMAIN fs
    IN  [err |-> IF ok THEN <<>> ELSE ExitError,
         call |-> GitCall(<<"init">>, environ, ok),
         fs |-> IF created THEN (dotGit :> "dir") @@ fs ELSE fs,
         wrote |-> IF created THEN <<[op |-> "git-init", pth |-> dotGit]>>
                   ELSE <<>>]

\* mutant: a failed git init is tried again
Clone_doGitInit_Retries ==
    /\ pc = "clone_init"
    /\ \E ok \in BOOLEAN :
        LET r == doGitInit(ok)
        IN  /\ calls' = Append(calls, r.call)
            /\ fs' = r.fs
            /\ fsWrites' = fsWrites \o r.wrote
            /\ pc' = IF r.err # <<>> THEN "clone_init" ELSE "clone_add_remote"
            /\ UNCHANGED outcome
    /\ UNCHANGED <<environ, cwd, runs, inputs, prepared, cloneLocals,
                   envmanCalls, envmanFailures>>

Clone_doGitInit ==
    /\ pc = "clone_init"
    /\ \E ok \in BOOLEAN :
        LET r == doGitInit(ok)
        IN  /\ calls' = Append(calls, r.call)
            /\ fs' = r.fs
            /\ fsWrites' = fsWrites \o r.wrote
            /\ IF r.err # <<>>
               THEN CloneReturn(Errorf("Could not init git repository, err: %s",
                                       <<absCloneIntoDir>>))
               ELSE pc' = "clone_add_remote" /\ UNCHANGED outcome
    /\ UNCHANGED <<environ, cwd, runs, inputs, prepared, cloneLocals,
                   envmanCalls, envmanFailures>>

\* the helper script doGitClone asks git to use
SshNoPromptFile(keyPth) ==
    IF keyPth # "" THEN "ssh_no_prompt_with_id.sh" ELSE "ssh_no_prompt.sh"

\* mutant: only the askpass override is set
SetAuthEnv_ForgetsSsh(env, sshNoPromtFilePth) ==
    [env EXCEPT !["GIT_ASKPASS"] = "echo"]

\* os.Setenv of the two authentication variables; with these constant keys
\* and values os.Setenv cannot fail
SetAuthEnv(env, sshNoPromtFilePth) ==
    [env EXCEPT !["GIT_ASKPASS"] = "echo", !["GIT_SSH"] = sshNoPromtFilePth]

doGitAddRemote(sshNoPromtFilePth, repositoryURL, ok) ==
    LET env == SetAuthEnv(environ, sshNoPromtFilePth)
    IN  [err |-> IF ok THEN <<>> ELSE ExitError,
         env |-> env,
         call |-> GitCall(<<"remote", "add", "origin", repositoryURL>>, env, ok)]

Clone_doGitAddRemote ==
    /\ pc = "clone_add_remote"
    /\ sshNoPromptFile' = SshNoPromptFile(privateKeyFilePth)
    /\ \E ok \in BOOLEAN :
        LET r == doGitAddRemote(sshNoPromptFile', preparedRepoURL, ok)
        IN  /\ environ' = r.env
            /\ calls' = Append(calls, r.call)
            /\ IF r.err # <<>>
               THEN CloneReturn(Errorf("Could not add remote, err: %s", r.err))
               ELSE pc' = "clone_fetch" /\ UNCHANGED outcome
    /\ UNCHANGED <<cwd, runs, fs, fsWrites, inputs, prepared, commitStats,
                   envmanCalls, envmanFailures>>

\* mutant: the special form is chosen by the checkout parameter
FetchArgs_ByCheckoutParam(pr, checkoutParam) ==
    IF checkoutParam # ""
    THEN <<"fetch", "origin", "pull/" \o pr \o "/merge:" \o checkoutParam>>
    ELSE <<"fetch">>

FetchArgs(pr, checkoutParam) ==
    IF pr # ""
    THEN <<"fetch", "origin", "pull/" \o pr \o "/merge:" \o checkoutParam>>
    ELSE <<"fetch">>

doGitFetch(sshNoPromtFilePth, pr, checkoutParam, ok) ==
    LET env == SetAuthEnv(environ, sshNoPromtFilePth)
    IN  [err |-> IF ok THEN <<>> ELSE ExitError,
         env |-> env,
         call |-> GitCall(FetchArgs(pr, checkoutParam), env, ok)]

Clone_doGitFetch ==
    /\ pc = "clone_fetch"
    /\ \E ok \in BOOLEAN :
        LET r == doGitFetch(sshNoPromptFile, pullRequestID, gitCheckoutParam, ok)
        IN  /\ environ' = r.env
            /\ calls' = Append(calls, r.call)
            /\ IF r.err # <<>>
               THEN CloneReturn(Errorf("Could not fetch from repository, err: %s",
                                       r.err))
               ELSE pc' = "clone_checkout" /\ UNCHANGED outcome
    /\ UNCHANGED <<cwd, runs, fs, fsWrites, inputs, prepared, cloneLocals,
                   envmanCalls, envmanFailures>>

\* mutant: the checkout branch is taken whatever the parameter
HasCheckoutParam_Always(checkoutParam) == TRUE

\* if gitCheckoutParam != ""
HasCheckoutParam(checkoutParam) == checkoutParam # ""

doGitCheckout(checkoutParam, ok) ==
    [err |-> IF ok THEN <<>> ELSE ExitError,
     call |-> GitCall(<<"checkout", checkoutParam>>, environ, ok)]

\* if gitCheckoutParam != "" { checkout ... } else { notice }; return nil
Clone_doGitCheckout ==
    /\ pc = "clone_checkout"
    /\ \E ok \in BOOLEAN :
        IF HasCheckoutParam(gitCheckoutParam)
        THEN LET r == doGitCheckout(gitCheckoutParam, ok)
             IN  /\ calls' = Append(calls, r.call)
                 /\ IF r.err # <<>>
                    THEN CloneReturn(Errorf("Could not do checkout (%s), err: %s",
                                            <<gitCheckoutParam>> \o r.err))
                    ELSE pc' = "clone_submodule" /\ UNCHANGED outcome
        ELSE /\ CloneReturn(<<>>)
             /\ UNCHANGED calls
    /\ UNCHANGED <<world, inputs, prepared, cloneLocals,
                   envmanCalls, envmanFailures>>

\* mutant: the exit status of git submodule update is not returned
doGitSubmodelueUpdate_IgnoresExit(sshNoPromtFilePth, ok) ==
    LET env == SetAuthEnv(environ, sshNoPromtFilePth)
    IN  [err |-> <<>>,
         env |-> env,
         call |-> GitCall(<<"submodule", "update", "--init", "--recursive">>,
                          env, ok)]

doGitSubmodelueUpdate(sshNoPromtFilePth, ok) ==
    LET env == SetAuthEnv(environ, sshNoPromtFilePth)
    IN  [err |-> IF ok THEN <<>> ELSE ExitError,
         env |-> env,
         call |-> GitCall(<<"submodule", "update", "--init", "--recursive">>,
                          env, ok)]

Clone_doGitSubmodelueUpdate ==
    /\ pc = "clone_submodule"
    /\ \E ok \in BOOLEAN :
        LET r == doGitSubmodelueUpdate(sshNoPromptFile, ok)
        IN  /\ environ' = r.env
            /\ calls' = Append(calls, r.call)
            /\ IF r.err # <<>>
               THEN CloneReturn(Errorf(
                        "Could not fetch from submodule repositories, err: %s",
                        r.err))
               ELSE pc' = "clone_log" /\ UNCHANGED outcome
    /\ UNCHANGED <<cwd, runs, fs, fsWrites, inputs, prepared, cloneLocals,
                   envmanCalls, envmanFailures>>

\* git log -1 --format <formatParam>: the captured output on success (git
\* ends it with a newline, so it is never empty), "" and an error otherwise
getGitLog(formatParam, ok) ==
    [out |-> IF ok THEN "log " \o formatParam ELSE "",
     err |-> IF ok THEN <<>>
             ELSE Errorf("git log failed, err: %s, details: %s",
                         ExitError \o <<"">>),
     call |-> GitCall(<<"log", "-1", "--format", formatParam>>, environ, ok)]

\* the seven queries, one per step, in the order of the code; an error is
\* printed and the (empty) value is stored all the same
Clone_getGitLog ==
    /\ pc = "clone_log"
    /\ LET i == Cardinality(DOMAIN commitStats) + 1
       IN  \E ok \in BOOLEAN :
            LET r == getGitLog(StatFormats[i], ok)
            IN  /\ calls' = Append(calls, r.call)
                /\ commitStats' = (StatKeys[i] :> r.out) @@ commitStats
                /\ pc' = IF i = Len(StatKeys) THEN "clone_export" ELSE "clone_log"
    /\ UNCHANGED <<world, inputs, prepared, sshNoPromptFile,
                   envmanCalls, envmanFailures, outcome>>

\* envman add --key <key>, the value on standard input
envmanAdd(key, value, ok) ==
    [err |-> IF ok THEN <<>> ELSE ExitError,
     calls |-> [envmanCalls EXCEPT ![key] = Append(@, value)]]

\* mutant: keys whose value is empty are skipped
Unvisited_SkipsEmpty ==
    {k \in DOMAIN commitStats : envmanCalls[k] = <<>> /\ commitStats[k] # ""}

\* the keys the range loop has still to visit
Unvisited == {k \in DOMAIN commitStats : envmanCalls[k] = <<>>}

\* mutant: a failed envman add is returned as doGitClone's error
Clone_envmanAdd_ReturnsError ==
    /\ pc = "clone_export"
    /\ \E key \in {k \in DOMAIN commitStats : envmanCalls[k] = <<>>},
          ok \in BOOLEAN :
        /\ envmanCalls' = [envmanCalls EXCEPT ![key] = Append(@, commitStats[key])]
        /\ envmanFailures' = envmanFailures + (IF ok THEN 0 ELSE 1)
        /\ IF ~ok
           THEN CloneReturn(Errorf("Faild to export ouput: (%s), err: %s",
                                   <<key>> \o ExitError))
           ELSE IF {k \in DOMAIN commitStats : envmanCalls[k] = <<>>} = {key}
           THEN CloneReturn(<<>>)
           ELSE pc' = "clone_export" /\ UNCHANGED outcome
    /\ UNCHANGED <<world, inputs, prepared, cloneLocals, calls>>

\* for key, value := range commitStats: one iteration, in any order; a
\* failure is printed; after the last iteration doGitClone returns nil
Clone_envmanAdd ==
    /\ pc = "clone_export"
    /\ \E key \in Unvisited, ok \in BOOLEAN :
        LET r == envmanAdd(key, commitStats[key], ok)
        IN  /\ envmanCalls' = r.calls
            /\ envmanFailures' = envmanFailures + (IF r.err # <<>> THEN 1 ELSE 0)
            /\ IF Unvisited = {key}
               THEN CloneReturn(<<>>)
               ELSE pc' = "clone_export" /\ UNCHANGED outcome
    /\ UNCHANGED <<world, inputs, prepared, cloneLocals, calls>>

\* if err := doGitClone(...); err != nil { log.Fatalf(...) }, then main ends
Main_AfterClone ==
    /\ pc = "main_clone_return"
    /\ IF cloneErr # <<>>
       THEN Fatalf("git clone failed, err: %s", cloneErr)
       ELSE /\ pc' = "exit"
            /\ exitCode' = 0
            /\ UNCHANGED <<cloneErr, fatalMsg>>
    /\ UNCHANGED <<world, inputs, prepared, cloneLocals, external>>

(***************************************************************************)
(* Specifications.                                                         *)
(***************************************************************************)
MainNext ==
    \/ Main_repository_url
    \/ Main_clone_into_dir
    \/ Main_commit
    \/ Main_tag
    \/ Main_branch
    \/ Main_pull_request_id
    \/ Main_auth_ssh_private_key
    \/ Main_Abs
    \/ Main_writePrivateKeyToFile
    \/ Main_urlParse

ResolveNext == Main_Resolve

CloneNext ==
    \/ Clone_IsPathExists
    \/ Clone_Mkdir
    \/ Clone_doGitInit
    \/ Clone_doGitAddRemote
    \/ Clone_doGitFetch
    \/ Clone_doGitCheckout
    \/ Clone_doGitSubmodelueUpdate
    \/ Clone_getGitLog
    \/ Clone_envmanAdd
    \/ Main_AfterClone

Next == MainNext \/ ResolveNext \/ CloneNext

\* a whole run of the step, from the start of main
Spec == Init /\ [][Next]_vars

\* main's locals at the cascade, for inputs whose hints may be empty
PreparedLocals ==
    /\ repoURL = "https://example.com/r.git"
    /\ preparedRepoURL = repoURL
    /\ absCloneIntoDir = cloneIntoDir
    /\ privateKeyFilePth =
           IF authSSHPrivateKey = "" THEN "" ELSE "/home/.ssh/bitrise"
    /\ cwd = "/work"
    /\ \E base \in InitialFileSystems(cwd, absCloneIntoDir) :
        fs = IF privateKeyFilePth = "" THEN base
             ELSE (privateKeyFilePth :> authSSHPrivateKey) @@ base
    /\ environ = EnvironOf(repoURL, cloneIntoDir, commit, tag, branch,
                           pullRequestID, authSSHPrivateKey, "/home")
    /\ NothingDone

(***************************************************************************)
(* The cascade on its own: main at the point where gitCheckoutParam is     *)
(* computed, with every combination of empty and non-empty hints.          *)
(***************************************************************************)
InitResolve ==
    /\ cloneIntoDir \in {"/out", "/nop/out"}
    /\ commit \in Commits
    /\ tag \in Tags
    /\ branch \in Branches
    /\ pullRequestID \in PullRequestIDs
    /\ authSSHPrivateKey \in PrivateKeys
    /\ gitCheckoutParam = ""
    /\ pc = "main_resolve"
    /\ PreparedLocals

SpecResolve == InitResolve /\ [][ResolveNext]_vars

(***************************************************************************)
(* doGitClone as a unit: main at the call, for the arguments the cascade   *)
(* produces from no hint, from a branch alone and from a pull-request id   *)
(* alone, with or without a private-key file.                              *)
(***************************************************************************)
InitClone ==
    /\ cloneIntoDir = "/out"
    /\ commit = ""
    /\ tag = ""
    /\ \E b \in Branches, p \in PullRequestIDs :
        /\ b = "" \/ p = ""
        /\ branch = b
        /\ pullRequestID = p
    /\ authSSHPrivateKey \in PrivateKeys
    /\ gitCheckoutParam = ResolveCheckoutParam(pullRequestID, commit, tag, branch)
    /\ pc = "clone_guard"
    /\ PreparedLocals

SpecClone == InitClone /\ [][CloneNext]_vars

\* a run in which every external process and every filesystem call returns:
\* the process, being sequential, then always takes its next step
FairSpec == Spec /\ WF_vars(Next)

(***************************************************************************)
(* Several runs of the step, one after the other, with the same inputs and *)
(* the same destination on the filesystem the earlier runs have left.  A   *)
(* new run is a new process: its locals and its environment start afresh;  *)
(* it may start in another working directory as long as the destination    *)
(* is the same.                                                            *)
(***************************************************************************)
MaxRuns == 2

NextRun ==
    /\ pc = "exit"
    /\ Len(runs) + 1 < MaxRuns
    /\ runs' = Append(runs, \E i \in 1..Len(calls) :
                                 calls[i].args = <<"init">> /\ calls[i].ok)
    /\ cwd' \in {wd \in WorkDirs \cap DOMAIN fs :
                    Abs(environ["clone_into_dir"], wd)
                        = Abs(environ["clone_into_dir"], cwd)}
    /\ environ' = [environ EXCEPT !["GIT_ASKPASS"] = "", !["GIT_SSH"] = ""]
    /\ pc' = "main"
    /\ repoURL' = "" /\ cloneIntoDir' = "" /\ commit' = "" /\ tag' = ""
    /\ branch' = "" /\ pullRequestID' = "" /\ authSSHPrivateKey' = ""
    /\ absCloneIntoDir' = "" /\ privateKeyFilePth' = ""
    /\ preparedRepoURL' = "" /\ gitCheckoutParam' = ""
    /\ fsWrites' = <<>>
    /\ sshNoPromptFile' = ""
    /\ commitStats' = <<>>
    /\ calls' = <<>>
    /\ envmanCalls' = [k \in StatKeySet |-> <<>>]
    /\ envmanFailures' = 0
    /\ cloneErr' = Pending
    /\ exitCode' = -1
    /\ fatalMsg' = <<>>
    /\ UNCHANGED fs

RunsNext == Next \/ NextRun

SpecRuns == Init /\ [][RunsNext]_vars

(***************************************************************************)
(* Properties.                                                             *)
(***************************************************************************)
\* the git subcommand of a call
Step(call) == call.args[1]

\* the calls of one git subcommand, as positions in calls
CallsOf(step) == {i \in 1..Len(calls) : Step(calls[i]) = step}

Succeeded(step) == \E i \in CallsOf(step) : calls[i].ok

NoEnvmanCall == \A k \in StatKeySet : envmanCalls[k] = <<>>

Returned == cloneErr # Pending

\* C1: the checkout parameter handed to doGitClone comes from the first
\* non-empty hint in the order pull-request id, commit, tag, branch: it is
\* "pull/<id>" for a non-empty id, else the commit, else the tag, else the
\* branch, and it is empty exactly when all four hints are empty.
C1_TargetByPriority ==
    pc = "clone_guard" =>
        /\ pullRequestID # "" => gitCheckoutParam = "pull/" \o pullRequestID
        /\ pullRequestID = "" /\ commit # "" => gitCheckoutParam = commit
        /\ pullRequestID = "" /\ commit = "" /\ tag # "" => gitCheckoutParam = tag
        /\ pullRequestID = "" /\ commit = "" /\ tag = "" /\ branch # ""
               => gitCheckoutParam = branch
        /\ gitCheckoutParam = ""
               <=> (pullRequestID = "" /\ commit = "" /\ tag = "" /\ branch = "")

\* a commit and a tag are both given, without a pull-request id: the commit wins
C1_Witness ==
    /\ pc = "clone_guard"
    /\ pullRequestID = "" /\ commit # "" /\ tag # "" /\ branch # ""
    /\ gitCheckoutParam = commit

\* C2: if <destination>/.git exists when doGitClone starts, doGitClone
\* returns an error in that very step without touching the environment, the
\* filesystem, git or envman, and nothing is touched after it has returned.
C2_GuardHasNoSideEffect ==
    [][/\ (pc = "clone_guard" /\ gitCheckPath \in DOMAIN fs)
            => /\ cloneErr' # Pending /\ cloneErr' # <<>>
               /\ UNCHANGED <<world, external>>
       /\ Returned => UNCHANGED <<world, external>>]_vars

\* the guard has turned a run down: nothing was created or run
C2_Witness ==
    /\ pc = "exit" /\ exitCode = 1
    /\ gitCheckPath \in DOMAIN fs
    /\ cloneErr = Errorf(".git folder already exists in the destination dir at: %s",
                         <<gitCheckPath>>)
    /\ calls = <<>> /\ NoEnvmanCall
    /\ environ["GIT_SSH"] = "" /\ environ["GIT_ASKPASS"] = ""
    /\ \A i \in 1..Len(fsWrites) : fsWrites[i].op # "mkdir"

\* C3: with an empty checkout parameter, once fetch has succeeded doGitClone
\* returns nil: init, remote add and fetch are the only processes of the run,
\* no checkout, submodule update, log query or envman add is ever run.
C3_NoTargetEndsAfterFetch ==
    (gitCheckoutParam = "" /\ Succeeded("fetch")) =>
        /\ Len(calls) = 3
        /\ NoEnvmanCall
        /\ pc \in {"clone_checkout", "main_clone_return", "exit"}
        /\ pc # "clone_checkout" => cloneErr = <<>>
        /\ pc = "exit" => exitCode = 0

C3_Witness ==
    /\ pc = "exit" /\ exitCode = 0
    /\ gitCheckoutParam = "" /\ Succeeded("fetch")
    /\ Len(calls) = 3 /\ Step(calls[3]) = "fetch"

\* the steps whose failure doGitClone returns
FatalSteps == {"init", "remote", "fetch", "checkout", "submodule"}

\* C4: when init, remote add, fetch, checkout or submodule update exits
\* non-zero, it is the last process of the run: doGitClone has returned an
\* error, no envman add was run and the run ends with a non-zero status.
C4_FailedStepAborts ==
    \A i \in 1..Len(calls) :
        (Step(calls[i]) \in FatalSteps /\ ~calls[i].ok) =>
            /\ i = Len(calls)
            /\ NoEnvmanCall
            /\ Returned /\ cloneErr # <<>>
            /\ pc \in {"main_clone_return", "exit"}
            /\ pc = "exit" => exitCode = 1

\* submodule update, the last of the five, has failed after four successes
C4_Witness ==
    /\ pc = "exit" /\ exitCode = 1
    /\ Len(calls) = 5
    /\ \A i \in 1..4 : calls[i].ok
    /\ Step(calls[5]) = "submodule" /\ ~calls[5].ok

\* the position of the log query for the i-th metadata key, if it was run
LogCallsOf(i) ==
    {j \in CallsOf("log") : calls[j].args = <<"log", "-1", "--format", StatFormats[i]>>}

\* C5: after a successful checkout and submodule update no key is queried or
\* published twice, and when doGitClone returns each of the seven keys has
\* been queried once and published once, with the value of its query, which
\* is the empty string when the query failed; failed envman runs change none
\* of this.
C5_AllSevenPublished ==
    Succeeded("submodule") =>
        /\ \A i \in 1..Len(StatKeys) :
            /\ Cardinality(LogCallsOf(i)) <= 1
            /\ Len(envmanCalls[StatKeys[i]]) <= 1
        /\ Returned =>
            \A i \in 1..Len(StatKeys) :
                /\ Cardinality(LogCallsOf(i)) = 1
                /\ StatKeys[i] \in DOMAIN commitStats
                /\ envmanCalls[StatKeys[i]] = <<commitStats[StatKeys[i]]>>
                /\ \A j \in LogCallsOf(i) :
                    calls[j].ok <=> envmanCalls[StatKeys[i]] # <<"">>

\* the first query and some envman runs failed, yet all seven were published
C5_Witness ==
    /\ Returned /\ Succeeded("submodule")
    /\ \E j \in LogCallsOf(1) : ~calls[j].ok
    /\ \E j \in LogCallsOf(2) : calls[j].ok
    /\ envmanFailures = 3
    /\ envmanCalls[StatKeys[1]] = <<"">>
    /\ \A k \in StatKeySet : Len(envmanCalls[k]) = 1

\* C6: an empty optional input is never a fatal error: a run whose
\* repository URL and destination directory are non-empty does not end with
\* an input-validation failure.
C6_OptionalInputNeverFatal ==
    (/\ pc = "exit" /\ exitCode = 1
     /\ fatalMsg[1] = "Input validation failed, err: %s")
        => (environ["repository_url"] = "" \/ environ["clone_into_dir"] = "")

\* C7: with an empty repository URL or destination directory the run does
\* not get past the reading of these two inputs, ends with status 1, and
\* writes no file, creates no directory, sets no variable and runs no
\* process.
C7_MissingRequiredInputIsFatal ==
    (environ["repository_url"] = "" \/ environ["clone_into_dir"] = "") =>
        /\ pc \in {"main", "main_clone_into_dir", "exit"}
        /\ pc = "exit" => (exitCode = 1 /\ Head(fatalMsg) = "Input validation failed, err: %s")
        /\ fsWrites = <<>>
        /\ calls = <<>> /\ NoEnvmanCall
        /\ environ["GIT_SSH"] = "" /\ environ["GIT_ASKPASS"] = ""

\* the destination directory is missing, everything else is given
C7_Witness ==
    /\ pc = "exit" /\ exitCode = 1
    /\ environ["repository_url"] # "" /\ environ["clone_into_dir"] = ""
    /\ \A k \in {"commit", "tag", "branch", "pull_request_id",
                 "auth_ssh_private_key", "HOME"} : environ[k] # ""
    /\ fatalMsg = <<"Input validation failed, err: %s",
                    "[!] Missing required input: %s", "clone_into_dir">>

\* C8: once checkout and submodule update have succeeded doGitClone returns
\* nil and the run ends with status 0, whatever log queries and envman runs
\* fail.
C8_MetadataFailuresNotFatal ==
    (Succeeded("submodule") /\ Returned) =>
        /\ cloneErr = <<>>
        /\ pc = "exit" => (exitCode = 0 /\ fatalMsg = <<>>)

\* all seven queries and all seven envman runs failed, and the run succeeded
C8_Witness ==
    /\ pc = "exit" /\ exitCode = 0
    /\ Succeeded("submodule")
    /\ \A j \in CallsOf("log") : ~calls[j].ok
    /\ Cardinality(CallsOf("log")) = 7
    /\ envmanFailures = 7

\* C9: fetch is run as "fetch origin pull/<id>/merge:<checkout parameter>"
\* when the pull-request id is non-empty, the checkout parameter being the
\* "pull/<id>" that checkout is given later, and as plain "fetch" when the
\* id is empty, whatever the other hints are.
C9_FetchArgs ==
    \A i \in CallsOf("fetch") :
        /\ pullRequestID # "" =>
            /\ calls[i].args = <<"fetch", "origin",
                                 "pull/" \o pullRequestID \o "/merge:pull/"
                                     \o pullRequestID>>
            /\ \A j \in CallsOf("checkout") :
                calls[j].args = <<"checkout", "pull/" \o pullRequestID>>
        /\ pullRequestID = "" => calls[i].args = <<"fetch">>

\* a pull request was fetched in the special form and checked out
C9_Witness ==
    /\ pullRequestID = "7"
    /\ \E i \in CallsOf("fetch") :
        calls[i].args = <<"fetch", "origin", "pull/7/merge:pull/7">>
    /\ \E j \in CallsOf("checkout") : calls[j].args = <<"checkout", "pull/7">>

\* C10: every git process runs in the destination directory that the guard
\* checked and doGitClone created, and after a successful init the
\* repository metadata is at <destination>/.git.
C10_GitRunsInDestination ==
    /\ \A i \in 1..Len(calls) : calls[i].dir = absCloneIntoDir
    /\ Succeeded("init") => gitCheckPath \in DOMAIN fs

\* the order doGitClone runs git in
StepOrder ==
    <<"init", "remote", "fetch", "checkout", "submodule",
      "log", "log", "log", "log", "log", "log", "log">>

\* C11: the git processes of a run are a prefix of init, remote add, fetch,
\* checkout, submodule update and the seven log queries, each run after the
\* one before it has exited successfully (a failed log query aside) and none
\* run twice; envman add is run only after the seven queries, at most once
\* per key.
C11_FixedOrderNoRetry ==
    /\ Len(calls) <= Len(StepOrder)
    /\ \A i \in 1..Len(calls) :
        /\ Step(calls[i]) = StepOrder[i]
        /\ (i < Len(calls) /\ Step(calls[i]) # "log") => calls[i].ok
    /\ \A i, j \in CallsOf("log") : calls[i].args = calls[j].args => i = j
    /\ \A k \in StatKeySet : Len(envmanCalls[k]) <= 1
    /\ ~NoEnvmanCall => Len(calls) = Len(StepOrder)

\* a whole run: twelve git processes in order, then the seven envman runs
C11_Witness ==
    /\ pc = "exit"
    /\ Len(calls) = Len(StepOrder)
    /\ \A i \in 1..Len(calls) : Step(calls[i]) = StepOrder[i]
    /\ \A k \in StatKeySet : Len(envmanCalls[k]) = 1

\* C12: a log query or an envman add is run only with a non-empty checkout
\* parameter and after checkout and submodule update have both succeeded.
C12_MetadataOnlyAfterCheckout ==
    (CallsOf("log") # {} \/ ~NoEnvmanCall) =>
        /\ gitCheckoutParam # ""
        /\ Succeeded("checkout")
        /\ Succeeded("submodule")
        /\ \A i \in CallsOf("log") :
            \E c \in CallsOf("checkout"), m \in CallsOf("submodule") :
                c < m /\ m < i

\* the first log query has been run, after checkout and submodule update
C12_Witness ==
    /\ Cardinality(CallsOf("log")) = 1
    /\ gitCheckoutParam = "main"
    /\ Succeeded("checkout") /\ Succeeded("submodule")

\* C13: the helper script git is asked to use follows from whether a private
\* key was provided, ssh_no_prompt.sh without a key and
\* ssh_no_prompt_with_id.sh with one, and a run without a key is not turned
\* down for the missing key, so that both scripts occur in runs of main.
C13_ScriptByKey ==
    /\ \A i \in 1..Len(calls) :
        calls[i].GIT_SSH # "" =>
            calls[i].GIT_SSH =
                IF environ["auth_ssh_private_key"] = "" THEN "ssh_no_prompt.sh"
                ELSE "ssh_no_prompt_with_id.sh"
    /\ fatalMsg # <<"Input validation failed, err: %s",
                    "[!] Missing required input: %s", "auth_ssh_private_key">>

\* the script doGitClone selects for this run
SelectedScript ==
    IF privateKeyFilePth = "" THEN "ssh_no_prompt.sh"
    ELSE "ssh_no_prompt_with_id.sh"

\* C14: every git process from remote add on runs with GIT_ASKPASS=echo and
\* GIT_SSH set to the script selected for the run, and once remote add has
\* been run the process environment keeps these two values.
C14_AuthEnvSetAndKept ==
    /\ \A i \in 1..Len(calls) :
        Step(calls[i]) \in {"remote", "fetch", "checkout", "submodule", "log"} =>
            /\ calls[i].GIT_ASKPASS = "echo"
            /\ calls[i].GIT_SSH = SelectedScript
    /\ CallsOf("remote") # {} =>
            /\ environ["GIT_ASKPASS"] = "echo"
            /\ environ["GIT_SSH"] = SelectedScript

\* a whole run without a key file: the last log query and the process at
\* its exit still see ssh_no_prompt.sh
C14_Witness ==
    /\ pc = "exit" /\ exitCode = 0
    /\ privateKeyFilePth = ""
    /\ Len(calls) = Len(StepOrder)
    /\ calls[Len(calls)].GIT_SSH = "ssh_no_prompt.sh"
    /\ calls[Len(calls)].GIT_ASKPASS = "echo"
    /\ environ["GIT_SSH"] = "ssh_no_prompt.sh"

MkdirFailed ==
    /\ Returned
    /\ cloneErr = Errorf("Failed to create the clone_destination_dir at: %s",
                         <<absCloneIntoDir>>)

\* C15: without a .git entry at the destination, doGitClone creates the
\* destination when it is absent, fails without running git init when the
\* parent is missing, and accepts a destination that exists already: it
\* does not fail on the creation of a directory that is there, and git init
\* is run only when the destination exists.
C15_ExistingDestinationAccepted ==
    /\ MkdirFailed => absCloneIntoDir \notin DOMAIN fs
    /\ (MkdirFailed /\ Dir(absCloneIntoDir) \notin DOMAIN fs) => calls = <<>>
    /\ calls # <<>> => absCloneIntoDir \in DOMAIN fs

\* the last element of an error: what the innermost failed call reported
Innermost(err) == <<err[Len(err)]>>

\* C16: an error returned by doGitClone for a failed directory creation,
\* init, remote add, fetch, checkout or submodule update names the stage and
\* ends with the error reported by the call that failed.
C16_ErrorWrapsCause ==
    /\ MkdirFailed => Innermost(cloneErr) = <<"mkdir failed">>
    /\ (/\ Returned
        /\ calls # <<>>
        /\ Step(calls[Len(calls)]) \in FatalSteps
        /\ ~calls[Len(calls)].ok)
            => /\ Len(cloneErr) >= 2
               /\ Innermost(cloneErr) = ExitError

\* git init succeeded in an earlier run on this destination
ClonedBefore == \E i \in 1..Len(runs) : runs[i]

\* C17: after a run in which git init succeeded, a later run on the same
\* destination runs neither git nor envman and does not succeed: doGitClone,
\* if it is reached, returns an error and the process exits with status 1.
C17_LaterRunFails ==
    ClonedBefore =>
        /\ calls = <<>> /\ NoEnvmanCall
        /\ cloneErr # <<>>
        /\ exitCode # 0

\* the second run of a destination that the first run has initialised:
\* doGitClone has returned an error without running git
C17_Witness ==
    /\ ClonedBefore
    /\ pc = "exit" /\ exitCode = 1
    /\ Returned /\ cloneErr # <<>>
    /\ calls = <<>>

\* C18: when every call returns, the run reaches its end, with status 0 or
\* with status 1 and a fatal message and never with both, and from the end
\* on nothing happens: no process is run, no variable set, no file written.
C18_RunEndsOnce ==
    /\ <>(pc = "exit")
    /\ [](pc = "exit" <=> exitCode \in {0, 1})
    /\ [](exitCode = 0 => (fatalMsg = <<>> /\ cloneErr = <<>>))
    /\ [](exitCode = 1 => fatalMsg # <<>>)
    /\ [][pc # "exit"]_vars

\* a run has ended in success with nothing having failed on the way
C18_Witness ==
    /\ pc = "exit" /\ exitCode = 0
    /\ \A i \in 1..Len(calls) : calls[i].ok
    /\ Len(calls) = Len(StepOrder)
    /\ envmanFailures = 0
    /\ \A k \in StatKeySet : Len(envmanCalls[k]) = 1

====
